---- MODULE Spec2Model ----
(***************************************************************************)
(* A model of celesph.py and sunpath.py: the axis rotations, the curve     *)
(* generators, the frame pipeline of demo(), the solar formulas, and the   *)
(* event handlers of the interactive figure.                               *)
(*                                                                         *)
(* Arithmetic is exact real arithmetic on a grid.  An angle is an integer  *)
(* number of twelfths of a turn (Pi == 6 units, one unit is 30 degrees),   *)
(* and a real number is an element (a + b*sqrt(3))/d of the field Q(sqrt3),*)
(* which holds the sine and cosine of every grid angle and is closed under *)
(* the sums, products and quotients the code takes.  Floating-point        *)
(* rounding is not modelled.                                               *)
(***************************************************************************)
EXTENDS Integers, Sequences, FiniteSets, TLC

VARIABLES
  store,           \* the parameter dictionary of the figure (without artists)
  view_type_iter,  \* demo(): position of itertools.cycle over the view types
  day_type_iter,   \* demo(): position of itertools.cycle over the day types
  artists,         \* store['artists'], the artists in creation order
  pc,              \* "setup" before the first refresh() of demo(), then
                   \* "shown"; "sun_setup" and "sun_shown" for plot_sun_paths()
  drawn,           \* what the last refresh() did
  args,            \* pure functions: the arguments of the call under study
  ret,             \* pure functions: the value computed so far
  stage            \* pure functions: how far the call sequence has got

vars == <<store, view_type_iter, day_type_iter, artists, pc, drawn,
          args, ret, stage>>

demo_vars == <<store, view_type_iter, day_type_iter, artists, pc, drawn>>
fn_vars == <<args, ret, stage>>

-----------------------------------------------------------------------------
(* Bounds of the model.                                                    *)

MaxCoord == 1      \* vector components range over -MaxCoord..MaxCoord
MaxI == 3          \* make_globe: largest i
MaxJ == 3          \* make_globe: largest j
MaxN == 4          \* make_globe: largest explicit resolution n

-----------------------------------------------------------------------------
(* Real numbers: <<a, b, d>> is (a + b*sqrt(3))/d with d > 0, in lowest    *)
(* terms, so that equal numbers are equal tuples.                          *)

Abs(n) == IF n < 0 THEN -n ELSE n

RECURSIVE GCD(_, _)
GCD(m, n) == IF n = 0 THEN m ELSE GCD(n, m % n)

Norm(a, b, d) ==
  LET g == GCD(GCD(Abs(a), Abs(b)), d)
  IN  <<a \div g, b \div g, d \div g>>

Q(n) == <<n, 0, 1>>
Zero == Q(0)
One == Q(1)
Half == <<1, 0, 2>>
HalfSqrt3 == <<0, 1, 2>>

Neg(x) == <<-x[1], -x[2], x[3]>>
Add(x, y) == Norm(x[1]*y[3] + y[1]*x[3], x[2]*y[3] + y[2]*x[3], x[3]*y[3])
Sub(x, y) == Add(x, Neg(y))
Mul(x, y) == Norm(x[1]*y[1] + 3*x[2]*y[2], x[1]*y[2] + x[2]*y[1], x[3]*y[3])

\* 1/x for x # 0: (a - b*sqrt3)*d / (a^2 - 3*b^2)
Inv(x) ==
  LET m == x[1]*x[1] - 3*x[2]*x[2]
  IN  IF m > 0 THEN Norm(x[1]*x[3], -x[2]*x[3], m)
               ELSE Norm(-x[1]*x[3], x[2]*x[3], -m)
Div(x, y) == Mul(x, Inv(y))

SignInt(n) == IF n > 0 THEN 1 ELSE IF n < 0 THEN -1 ELSE 0

\* the sign of a + b*sqrt3
Sign(x) ==
  LET a == x[1]
      b == x[2]
  IN  IF a >= 0 /\ b >= 0 THEN SignInt(a + b)
      ELSE IF a <= 0 /\ b <= 0 THEN -1
      ELSE IF a > 0 THEN SignInt(a*a - 3*b*b)
      ELSE SignInt(3*b*b - a*a)

Leq(x, y) == Sign(Sub(y, x)) >= 0
Less(x, y) == Sign(Sub(y, x)) > 0

-----------------------------------------------------------------------------
(* Angles and the trigonometric functions of the math module.              *)

Pi == 6                    \* math.pi, in grid units
HalfPi == Pi \div 2        \* math.pi/2
Turn == 2 * Pi

\* math.cos at a grid angle
Cos(p) ==
  LET k == p % Turn
  IN  CASE k = 0 -> One
        [] k \in {1, 11} -> HalfSqrt3
        [] k \in {2, 10} -> Half
        [] k \in {3, 9} -> Zero
        [] k \in {4, 8} -> Neg(Half)
        [] k \in {5, 7} -> Neg(HalfSqrt3)
        [] k = 6 -> Neg(One)

\* math.sin at a grid angle
Sin(p) ==
  LET k == p % Turn
  IN  CASE k \in {0, 6} -> Zero
        [] k \in {1, 5} -> Half
        [] k \in {2, 4} -> HalfSqrt3
        [] k = 3 -> One
        [] k \in {7, 11} -> Neg(Half)
        [] k \in {8, 10} -> Neg(HalfSqrt3)
        [] k = 9 -> Neg(One)

-----------------------------------------------------------------------------
(* The axis rotations (celesph.py 17-30, sunpath.py 8-21).                 *)

rotate_x(p, v) ==
  LET c == Cos(p)
      s == Sin(p)
      x == v[1]
      y == v[2]
      z == v[3]
  IN  <<x, Sub(Mul(y, c), Mul(z, s)), Add(Mul(y, s), Mul(z, c))>>

\* rotate_y with the sign of the last term wrong
rotate_y_sign(p, v) ==
  LET c == Cos(p)
      s == Sin(p)
      x == v[1]
      y == v[2]
      z == v[3]
  IN  <<Add(Mul(z, s), Mul(x, c)), y, Add(Mul(z, c), Mul(x, s))>>

rotate_y(p, v) ==
  LET c == Cos(p)
      s == Sin(p)
      x == v[1]
      y == v[2]
      z == v[3]
  IN  <<Add(Mul(z, s), Mul(x, c)), y, Sub(Mul(z, c), Mul(x, s))>>

rotate_z(p, v) ==
  LET c == Cos(p)
      s == Sin(p)
      x == v[1]
      y == v[2]
      z == v[3]
  IN  <<Sub(Mul(x, c), Mul(y, s)), Add(Mul(x, s), Mul(y, c)), z>>

Vec(x, y, z) == <<Q(x), Q(y), Q(z)>>
Coords == -MaxCoord..MaxCoord
Vectors == {Vec(x, y, z) : x \in Coords, y \in Coords, z \in Coords}

-----------------------------------------------------------------------------
(* Values shared by the specifications.                                    *)

\* Python's None, where a vector or a list is expected
None == <<>>

Last(s) == s[Len(s)]

\* the angles a slider of range [-pi, pi] can deliver on the grid
AngleValues == -Pi..Pi
\* the obliquity slider, range [0, pi] (celesph.py 203-206, sunpath.py 112-115)
ObliquityValues == 0..Pi
\* the latitude slider, range [-pi/2, pi/2] (celesph.py 210-213)
LatitudeValues == -HalfPi..HalfPi
\* the sliders of time_of_year and time_of_day, in steps of 90 degrees
TimeValues == {t \in AngleValues : t % HalfPi = 0}

\* the demo is not running: the state of its variables in the specifications
\* of the pure functions
DemoOff ==
  /\ store = <<>>
  /\ view_type_iter = 0
  /\ day_type_iter = 0
  /\ artists = <<>>
  /\ pc = "off"
  /\ drawn = <<>>

\* no function call is under study: the state of args, ret and stage in the
\* specification of the demo
FnOff ==
  /\ args = <<>>
  /\ ret = <<>>
  /\ stage = "off"

-----------------------------------------------------------------------------
(* SpecRotate: a rotation about one axis, followed by the rotation by the  *)
(* opposite angle about the same axis.  ret is the sequence of vectors     *)
(* obtained so far.                                                        *)

Axes == {"x", "y", "z"}

Rotate(axis, p, v) ==
  CASE axis = "x" -> rotate_x(p, v)
    [] axis = "y" -> rotate_y(p, v)
    [] axis = "z" -> rotate_z(p, v)

InitRotate ==
  /\ DemoOff
  /\ args \in [axis : Axes, p : AngleValues, x : Vectors]
  /\ ret = <<args.x>>
  /\ stage = "start"

RotateForward ==
  /\ stage = "start"
  /\ ret' = Append(ret, Rotate(args.axis, args.p, Last(ret)))
  /\ stage' = "rotated"
  /\ UNCHANGED <<args, demo_vars>>

RotateBack ==
  /\ stage = "rotated"
  /\ ret' = Append(ret, Rotate(args.axis, -args.p, Last(ret)))
  /\ stage' = "restored"
  /\ UNCHANGED <<args, demo_vars>>

NextRotate == RotateForward \/ RotateBack

SpecRotate == InitRotate /\ [][NextRotate]_vars

-----------------------------------------------------------------------------
(* The frame pipeline of demo() (celesph.py 72-96).  s is the store.       *)

transform_observer_to_inertial(s, x) ==
  LET colatitude == HalfPi - s.latitude
      x1 == rotate_y(colatitude, x)
      x2 == rotate_z(s.time_of_day, x1)
  IN  IF s.day_type = "solar" THEN rotate_z(s.time_of_year, x2) ELSE x2

transform_inertial_to_ecliptic(s, x) == rotate_y(s.obliquity, x)

\* transform_ecliptic_to_view without the rotation of the solar day
transform_ecliptic_to_view_sidereal(s, x) ==
  IF s.view_type = "ecliptic" THEN x
  ELSE
    LET colatitude == HalfPi - s.latitude
        x1 == rotate_y(-s.obliquity, x)
    IN  IF s.view_type = "equator" THEN x1
        ELSE
          LET x2 == rotate_z(-s.time_of_day, x1)
              x4 == rotate_y(-colatitude, x2)
          IN  IF s.view_type = "horizon" THEN x4 ELSE None

transform_ecliptic_to_view(s, x) ==
  IF s.view_type = "ecliptic" THEN x
  ELSE
    LET colatitude == HalfPi - s.latitude
        x1 == rotate_y(-s.obliquity, x)
    IN  IF s.view_type = "equator" THEN x1
        ELSE
          LET x2 == rotate_z(-s.time_of_day, x1)
              x3 == IF s.day_type = "solar"
                    THEN rotate_z(-s.time_of_year, x2) ELSE x2
              x4 == rotate_y(-colatitude, x3)
          IN  IF s.view_type = "horizon" THEN x4 ELSE None

\* the view types in another order
ViewTypesSwapped == <<"ecliptic", "horizon", "equator">>

ViewTypes == <<"ecliptic", "equator", "horizon">>   \* celesph.py 59
DayTypes == <<"sidereal", "solar">>                 \* celesph.py 60

Range(s) == {s[k] : k \in DOMAIN s}

\* the zenith, the south point and the 0h point, which the demo labels
\* (celesph.py 184, 176, 139), and one direction off the axes
FrameVectors == {Vec(0, 0, 1), Vec(1, 0, 0), Vec(0, -1, 0), Vec(1, -1, 1)}

(* SpecFrame: a vector given in the observer's or in the inertial frame is *)
(* carried to the ecliptic frame and from there to the view.  args is the  *)
(* store, the vector x and the frame it starts in; the store is not        *)
(* changed during the chain.  The view type ranges over the three known    *)
(* values and one unknown value.                                           *)

InitFrame ==
  /\ DemoOff
  /\ args \in [obliquity : ObliquityValues, latitude : LatitudeValues,
               time_of_day : AngleValues, time_of_year : AngleValues,
               day_type : Range(DayTypes),
               view_type : Range(ViewTypes) \cup {"galactic"},
               x : FrameVectors, native : {"observer", "inertial"}]
  /\ ret = <<args.x>>
  /\ stage = args.native

ObserverToInertial ==
  /\ stage = "observer"
  /\ ret' = Append(ret, transform_observer_to_inertial(args, Last(ret)))
  /\ stage' = "inertial"
  /\ UNCHANGED <<args, demo_vars>>

InertialToEcliptic ==
  /\ stage = "inertial"
  /\ ret' = Append(ret, transform_inertial_to_ecliptic(args, Last(ret)))
  /\ stage' = "ecliptic"
  /\ UNCHANGED <<args, demo_vars>>

EclipticToView ==
  /\ stage = "ecliptic"
  /\ ret' = Append(ret, transform_ecliptic_to_view(args, Last(ret)))
  /\ stage' = "view"
  /\ UNCHANGED <<args, demo_vars>>

NextFrame == ObserverToInertial \/ InertialToEcliptic \/ EclipticToView

SpecFrame == InitFrame /\ [][NextFrame]_vars

-----------------------------------------------------------------------------
(* The curve generators (celesph.py 32-53, sunpath.py 23-44).  An angle    *)
(* that need not lie on the grid is a real number of grid units.  A curve  *)
(* is kept as its kind, its fixed angle and the sequence of parameter      *)
(* values it is sampled at; its k-th point is the point of that kind at    *)
(* the k-th parameter value.                                               *)

DefaultN == 100            \* the default of the parameter n

\* numpy.linspace(start, stop, num) for num >= 1
linspace(start, stop, num) ==
  [k \in 1..num |->
     IF num = 1 THEN start
     ELSE Add(start, Div(Mul(Q(k - 1), Sub(stop, start)), Q(num - 1)))]

\* the Python slices s[1:-1] and s[:-1]
SliceInner(s) == SubSeq(s, 2, Len(s) - 1)
SliceNothing(s) == s       \* s[:] in place of s[:-1]
SliceButLast(s) == SubSeq(s, 1, Len(s) - 1)

make_meridian(p, n) ==
  [kind |-> "meridian", angle |-> p,
   samples |-> linspace(Q(-Pi), Q(Pi), n + 1)]

make_parallel(q, n) ==
  [kind |-> "parallel", angle |-> q,
   samples |-> linspace(Q(-Pi), Q(Pi), n + 1)]

\* the point of make_parallel(q) at the parameter value p, both on the grid
parallel_point(q, p) ==
  <<Mul(Sin(q), Cos(p)), Mul(Sin(q), Sin(p)), Mul(Cos(q), One)>>

\* make_globe(i, j, n): n is accepted and not passed on, so that every curve
\* is made with the default resolution
make_globe(i, j, n) ==
  LET qs == SliceInner(linspace(Q(0), Q(Pi), i*2 + 1))
      ps == SliceButLast(linspace(Q(0), Q(Pi), j*2 + 1))
  IN  [k \in 1..Len(qs) |-> make_parallel(qs[k], DefaultN)]
        \o [k \in 1..Len(ps) |-> make_meridian(ps[k], DefaultN)]

\* the assertion at the head of make_globe
make_globe_assert(i, j) == i >= 0 /\ j >= 0

(* SpecGlobe: one call of make_globe, which returns the list of curves or  *)
(* raises AssertionError.  args.n = DefaultN stands for a call that leaves *)
(* n out.                                                                  *)

InitGlobe ==
  /\ DemoOff
  /\ args \in [i : -1..MaxI, j : -1..MaxJ, n : (1..MaxN) \cup {DefaultN}]
  /\ ret = None
  /\ stage = "call"

CallMakeGlobe ==
  /\ stage = "call"
  /\ IF make_globe_assert(args.i, args.j)
     THEN /\ ret' = make_globe(args.i, args.j, args.n)
          /\ stage' = "returned"
     ELSE /\ ret' = ret
          /\ stage' = "AssertionError"
  /\ UNCHANGED <<args, demo_vars>>

NextGlobe == CallMakeGlobe

SpecGlobe == InitGlobe /\ [][NextGlobe]_vars

-----------------------------------------------------------------------------
(* The solar formulas of sunpath.py (46-59, 129-134).                      *)

\* stands for an angle that is no multiple of 30 degrees; as an angle it is
\* outside the range of asin
OffGrid == Turn + Turn
\* numpy's result outside a function's domain, where a number is expected
NaN == <<>>

\* math.asin: the angle in [-pi/2, pi/2] with the given sine
ASin(x) ==
  IF \E k \in -HalfPi..HalfPi : Sin(k) = x
  THEN CHOOSE k \in -HalfPi..HalfPi : Sin(k) = x
  ELSE OffGrid

\* get_sun_declination with the sine of t in place of its cosine
get_sun_declination_sin(o, t) == ASin(Mul(Sin(t), Sin(o)))

get_sun_declination(o, t) == ASin(Mul(Cos(t), Sin(o)))

\* the number of samples written out in the second make_sun_path
SunPathSamples == 101

\* the first definition of make_sun_path, which the second one shadows:
\* its sample parameters and its point at the parameter value p
make_sun_path_first(o, t, l, p) ==
  LET d == get_sun_declination(o, t)
      c == make_parallel(Q(HalfPi - d), DefaultN)
  IN  [samples |-> c.samples,
       point |-> rotate_y(HalfPi - l, parallel_point(HalfPi - d, p))]

\* the second definition of make_sun_path, the one in effect
make_sun_path(o, t, l, p) ==
  LET d == get_sun_declination(o, t)
  IN  [samples |-> linspace(Q(-Pi), Q(Pi), SunPathSamples),
       point |->
         <<Add(Mul(Mul(Sin(l), Cos(d)), Cos(p)), Mul(Cos(l), Sin(d))),
           Mul(Cos(d), Sin(p)),
           Add(Mul(Mul(Neg(Cos(l)), Cos(d)), Cos(p)), Mul(Sin(l), Sin(d)))>>]

\* numpy.tan, where the cosine is not 0
Tan(p) == Div(Sin(p), Cos(p))

\* numpy.clip left out
ClipNothing(x, lo, hi) == x

\* numpy.clip
Clip(x, lo, hi) == IF Less(x, lo) THEN lo ELSE IF Less(hi, x) THEN hi ELSE x

\* numpy.arccos: nan outside [-1, 1]; inside, the angle in [0, pi] with the
\* given cosine, as the pair <<lo, hi>> of neighbouring grid angles that
\* enclose it (lo = hi when the angle is on the grid)
ArcCos(x) ==
  IF x = NaN \/ Less(x, Neg(One)) \/ Less(One, x) THEN NaN
  ELSE
    LET below == {k \in 0..Pi : Leq(x, Cos(k))}
        above == {k \in 0..Pi : Leq(Cos(k), x)}
    IN  <<CHOOSE k \in below : \A m \in below : m <= k,
          CHOOSE k \in above : \A m \in above : k <= m>>

\* the body of the loop of plot_insolation_variation for one latitude l and
\* one declination d: the argument of arccos and the sunlit fraction, the
\* latter as the interval <<lo, hi>> that arccos leaves
sunlit_fraction(l, d) ==
  LET temp == Clip(Mul(Tan(l), Tan(d)), Neg(One), One)
      a == ArcCos(temp)
  IN  [arg |-> temp,
       frac |-> IF a = NaN THEN NaN
                ELSE <<Sub(One, Div(Q(a[2]), Q(Pi))),
                       Sub(One, Div(Q(a[1]), Q(Pi)))>>]

(* SpecSun: the declination for an obliquity o and a time of year t for   *)
(* which it is a grid angle, and the sunlit fraction at a latitude l for   *)
(* that declination, taken where both tangents exist.  ret maps the name   *)
(* of each result computed so far to its value.                            *)

OnGrid(o, t) == get_sun_declination(o, t) # OffGrid

InitSun ==
  /\ DemoOff
  /\ args \in {a \in [o : ObliquityValues, t : AngleValues,
                      l : LatitudeValues] : OnGrid(a.o, a.t)}
  /\ ret = <<>>
  /\ stage = "call"

CallGetSunDeclination ==
  /\ stage = "call"
  /\ "d" \notin DOMAIN ret
  /\ ret' = ret @@ ("d" :> get_sun_declination(args.o, args.t))
  /\ UNCHANGED <<args, stage, demo_vars>>

CallSunlitFraction ==
  /\ stage = "call"
  /\ "d" \in DOMAIN ret
  /\ "lit" \notin DOMAIN ret
  /\ Cos(args.l) # Zero
  /\ Cos(ret.d) # Zero
  /\ ret' = ret @@ ("lit" :> sunlit_fraction(args.l, ret.d))
  /\ UNCHANGED <<args, stage, demo_vars>>

NextSun == CallGetSunDeclination \/ CallSunlitFraction

SpecSun == InitSun /\ [][NextSun]_vars

(* SpecSunPath: the two definitions of make_sun_path applied to the same   *)
(* obliquity o, time of year t and latitude l, and evaluated at the same   *)
(* parameter value p.                                                      *)

InitSunPath ==
  /\ DemoOff
  /\ args \in {a \in [o : ObliquityValues, t : AngleValues,
                      l : LatitudeValues, p : AngleValues] : OnGrid(a.o, a.t)}
  /\ ret = <<>>
  /\ stage = "call"

CallMakeSunPathFirst ==
  /\ stage = "call"
  /\ "first" \notin DOMAIN ret
  /\ ret' = ret @@
       ("first" :> make_sun_path_first(args.o, args.t, args.l, args.p))
  /\ UNCHANGED <<args, stage, demo_vars>>

CallMakeSunPath ==
  /\ stage = "call"
  /\ "second" \notin DOMAIN ret
  /\ ret' = ret @@
       ("second" :> make_sun_path(args.o, args.t, args.l, args.p))
  /\ UNCHANGED <<args, stage, demo_vars>>

NextSunPath == CallMakeSunPathFirst \/ CallMakeSunPath

SpecSunPath == InitSunPath /\ [][NextSunPath]_vars

-----------------------------------------------------------------------------
(* The interactive figures: demo() of celesph.py with its store, its two   *)
(* cycling iterators, refresh() with its reuse of artists, the four        *)
(* sliders and the key handler; and plot_sun_paths() of sunpath.py with    *)
(* its store, its refresh() and its two sliders.  A behaviour is one       *)
(* figure or the other.                                                    *)

\* itertools.cycle(items) that has delivered k items: next() delivers
\* items[(k % Len) + 1]
cycle_next(items, k) == items[(k % Len(items)) + 1]

\* the curves of the equatorial grid drawn by refresh (celesph.py 133)
DemoGlobe == make_globe(3, 3, DefaultN)

\* the calls of plot, text and text2d that refresh() makes, in order, each
\* with the label given when the artist is created and the string set at
\* every call (celesph.py 132-192)
draw_calls(s) ==
  [k \in 1..Len(DemoGlobe) |->
     [fn |-> "plot", label |-> IF k = 1 THEN "RA/Dec" ELSE "", text |-> <<>>]]
  \o [k \in 1..6 |->
     [fn |-> "text", label |-> "",
      text |-> <<(<<"+90", "-90", "0h", "6h", "12h", "18h">>)[k]>>]]
  \o <<[fn |-> "plot", label |-> "ecliptic", text |-> <<>>],
       [fn |-> "plot", label |-> "", text |-> <<>>],
       [fn |-> "plot", label |-> "sun path", text |-> <<>>],
       [fn |-> "plot", label |-> "horizon", text |-> <<>>],
       [fn |-> "plot", label |-> "", text |-> <<>>]>>
  \o [k \in 1..4 |->
     [fn |-> "text", label |-> "", text |-> <<(<<"N", "E", "S", "W">>)[k]>>]]
  \o <<[fn |-> "plot", label |-> "", text |-> <<>>],
       [fn |-> "plot", label |-> "zenith", text |-> <<>>],
       [fn |-> "text2d", label |-> "",
        text |-> <<"view", s.view_type, "day", s.day_type>>]>>

\* the local variable artists of refresh(): NoIter for None, else the
\* number of artists the iterator over store['artists'] has delivered
NoIter == 0 - 1
\* the iterator never made
refresh_iter_none(arts) == NoIter

refresh_iter(arts) == IF arts # <<>> THEN 0 ELSE NoIter

\* plot, text and text2d applied to the calls in order.  acc holds
\* store['artists'], the calls made, the artists used (by their place in the
\* list), the number of artists created, the iterator and the exception
\* that ended the refresh, if any.  view_ok tells whether
\* transform_ecliptic_to_view returns a vector; without one, set_data_3d and
\* set_position_3d raise TypeError.
RECURSIVE draw_all(_, _, _)
draw_all(calls, view_ok, acc) ==
  IF calls = <<>> \/ acc.exc # "none" THEN acc
  ELSE
    LET c == Head(calls)
        n == Len(acc.artists)
        made == [acc EXCEPT !.calls = Append(@, c.fn)]
    IN  IF acc.iter = NoIter
        THEN \* if not artists: create the artist and append it
          LET new == [kind |-> c.fn, label |-> c.label, text |-> <<>>]
              got == [made EXCEPT !.artists = Append(@, new),
                                  !.used = Append(@, n + 1),
                                  !.created = @ + 1]
          IN  IF c.fn # "text2d" /\ ~view_ok
              THEN [got EXCEPT !.exc = "TypeError"]
              ELSE draw_all(Tail(calls), view_ok,
                     [got EXCEPT !.artists[n + 1].text = c.text])
        ELSE IF acc.iter >= n
        THEN \* next(artists) at the end of the list
          [made EXCEPT !.exc = "StopIteration"]
        ELSE
          LET k == acc.iter + 1
              got == [made EXCEPT !.used = Append(@, k), !.iter = k]
          IN  IF c.fn # "text2d" /\ ~view_ok
              THEN [got EXCEPT !.exc = "TypeError"]
              ELSE draw_all(Tail(calls), view_ok,
                     [got EXCEPT !.artists[k].text = c.text])

\* refresh(**kwargs) of demo() on the updated store s and the list arts
refresh(s, arts) ==
  draw_all(draw_calls(s),
           transform_ecliptic_to_view(s, Vec(0, 0, 1)) # None,
           [artists |-> arts, calls |-> <<>>, used |-> <<>>, created |-> 0,
            iter |-> refresh_iter(arts), exc |-> "none"])

\* the calls of plot that refresh() of plot_sun_paths() makes
\* (sunpath.py 83-91)
sun_draw_calls ==
  <<[fn |-> "plot", label |-> "June solstice", text |-> <<>>],
    [fn |-> "plot", label |-> "equinoxes", text |-> <<>>],
    [fn |-> "plot", label |-> "December solstice", text |-> <<>>]>>

\* refresh(**kwargs) of plot_sun_paths(), whose plot() takes its data as it
\* is (sunpath.py 71-91)
sun_refresh(s, arts) ==
  draw_all(sun_draw_calls, TRUE,
           [artists |-> arts, calls |-> <<>>, used |-> <<>>, created |-> 0,
            iter |-> refresh_iter(arts), exc |-> "none"])

\* the state after a call refresh(**kwargs) that updates the store to s
Refreshed(s) ==
  \E r \in {IF pc \in {"setup", "shown"}
            THEN refresh(s, artists) ELSE sun_refresh(s, artists)} :
    /\ store' = s
    /\ artists' = r.artists
    /\ drawn' = [calls |-> r.calls, used |-> r.used,
                 created |-> r.created, exc |-> r.exc]

\* the default obliquity of 23.4 degrees and latitude of 40 degrees, taken to
\* the nearest grid angle
InitObliquity == 1
InitLatitude == 1

\* demo() up to the creation of the store (celesph.py 56-70): each iterator
\* has delivered its first item
InitDemo ==
  /\ FnOff
  /\ store = [obliquity |-> InitObliquity, latitude |-> InitLatitude,
              time_of_year |-> 0, time_of_day |-> 0,
              view_type |-> cycle_next(ViewTypes, 0),
              day_type |-> cycle_next(DayTypes, 0)]
  /\ view_type_iter = 1
  /\ day_type_iter = 1
  /\ artists = <<>>
  /\ pc = "setup"
  /\ drawn = [calls |-> <<>>, used |-> <<>>, created |-> 0, exc |-> "none"]

\* plot_sun_paths() up to the creation of the store (sunpath.py 62-69)
InitSunPaths ==
  /\ FnOff
  /\ store = [obliquity |-> InitObliquity, latitude |-> InitLatitude]
  /\ view_type_iter = 0
  /\ day_type_iter = 0
  /\ artists = <<>>
  /\ pc = "sun_setup"
  /\ drawn = [calls |-> <<>>, used |-> <<>>, created |-> 0, exc |-> "none"]

Init == InitDemo \/ InitSunPaths

\* the call refresh() of demo() (celesph.py 194); the sliders and the key
\* handler are connected after it
FirstRefresh ==
  /\ pc = "setup"
  /\ Refreshed(store)
  /\ pc' = "shown"
  /\ UNCHANGED <<view_type_iter, day_type_iter, fn_vars>>

\* the call refresh() of plot_sun_paths() (sunpath.py 103)
SunFirstRefresh ==
  /\ pc = "sun_setup"
  /\ Refreshed(store)
  /\ pc' = "sun_shown"
  /\ UNCHANGED <<view_type_iter, day_type_iter, fn_vars>>

\* the sliders of plot_sun_paths() (sunpath.py 112-124)
SunSliderObliquity(value) ==
  /\ pc = "sun_shown"
  /\ Refreshed([store EXCEPT !.obliquity = value])
  /\ UNCHANGED <<view_type_iter, day_type_iter, pc, fn_vars>>

SunSliderLatitude(value) ==
  /\ pc = "sun_shown"
  /\ Refreshed([store EXCEPT !.latitude = value])
  /\ UNCHANGED <<view_type_iter, day_type_iter, pc, fn_vars>>

SliderObliquity(value) ==
  /\ pc = "shown"
  /\ Refreshed([store EXCEPT !.obliquity = value])
  /\ UNCHANGED <<view_type_iter, day_type_iter, pc, fn_vars>>

SliderLatitude(value) ==
  /\ pc = "shown"
  /\ Refreshed([store EXCEPT !.latitude = value])
  /\ UNCHANGED <<view_type_iter, day_type_iter, pc, fn_vars>>

SliderTimeOfYear(value) ==
  /\ pc = "shown"
  /\ Refreshed([store EXCEPT !.time_of_year = value])
  /\ UNCHANGED <<view_type_iter, day_type_iter, pc, fn_vars>>

SliderTimeOfDay(value) ==
  /\ pc = "shown"
  /\ Refreshed([store EXCEPT !.time_of_day = value])
  /\ UNCHANGED <<view_type_iter, day_type_iter, pc, fn_vars>>

Keys == {"1", "2", "3"}

on_key_press(key) ==
  /\ pc = "shown"
  /\ IF key = "1"
     THEN /\ view_type_iter' = (view_type_iter + 1) % Len(ViewTypes)
          /\ UNCHANGED day_type_iter
          /\ Refreshed([store EXCEPT
                          !.view_type = cycle_next(ViewTypes, view_type_iter)])
     ELSE IF key = "2"
     THEN /\ day_type_iter' = (day_type_iter + 1) % Len(DayTypes)
          /\ UNCHANGED view_type_iter
          /\ Refreshed([store EXCEPT
                          !.day_type = cycle_next(DayTypes, day_type_iter)])
     ELSE UNCHANGED <<store, artists, drawn, view_type_iter, day_type_iter>>
  /\ UNCHANGED <<pc, fn_vars>>

Next ==
  \/ FirstRefresh
  \/ \E value \in ObliquityValues : SliderObliquity(value)
  \/ \E value \in LatitudeValues : SliderLatitude(value)
  \/ \E value \in TimeValues : SliderTimeOfYear(value)
  \/ \E value \in TimeValues : SliderTimeOfDay(value)
  \/ \E key \in Keys : on_key_press(key)
  \/ SunFirstRefresh
  \/ \E value \in ObliquityValues : SunSliderObliquity(value)
  \/ \E value \in LatitudeValues : SunSliderLatitude(value)

Spec == Init /\ [][Next]_vars

-----------------------------------------------------------------------------
(* The claims about the pure functions.                                    *)

\* the curves of a list that are of the given kind
OfKind(curves, kind) == SelectSeq(curves, LAMBDA c : c.kind = kind)

\* C1 as stated: for every i >= 0 and j >= 0, make_globe(i, j) returns
\* exactly 2*i - 1 parallels followed by exactly 2*j meridians.
C1_CountsAsStated ==
  stage = "returned" =>
    /\ Len(ret) = (2*args.i - 1) + 2*args.j
    /\ Len(OfKind(ret, "parallel")) = 2*args.i - 1
    /\ Len(OfKind(ret, "meridian")) = 2*args.j

\* the number of parallels of make_globe(i, j): none for i = 0
NumParallels(i) == IF i = 0 THEN 0 ELSE 2*i - 1

\* C1 as amended: make_globe(i, j) returns NumParallels(i) parallels, which
\* is 2*i - 1 for i >= 1 and 0 for i = 0, followed by 2*j meridians; the
\* k-th parallel has the colatitude k*pi/(2*i), an interior point of the
\* even division of [0, pi] into 2*i parts; the longitudes of the meridians
\* are pairwise distinct.  A negative i or j raises AssertionError.
C1_GlobeCounts ==
  /\ stage = "returned" =>
       /\ args.i >= 0 /\ args.j >= 0
       /\ Len(ret) = NumParallels(args.i) + 2*args.j
       /\ \A k \in 1..NumParallels(args.i) :
            /\ ret[k].kind = "parallel"
            /\ ret[k].angle = Norm(k*Pi, 0, 2*args.i)
            /\ Less(Zero, ret[k].angle) /\ Less(ret[k].angle, Q(Pi))
       /\ \A k \in 1..(2*args.j) :
            ret[NumParallels(args.i) + k].kind = "meridian"
       /\ \A k, m \in (NumParallels(args.i) + 1)..Len(ret) :
            k # m => ret[k].angle # ret[m].angle
  /\ stage = "AssertionError" => args.i < 0 \/ args.j < 0

\* make_globe(3, 3) has returned its 5 parallels and 6 meridians
C1_Witness ==
  /\ stage = "returned"
  /\ args.i = 3 /\ args.j = 3
  /\ Len(OfKind(ret, "parallel")) = 5
  /\ Len(OfKind(ret, "meridian")) = 6

\* C2: called with a view type that is none of the three known ones,
\* transform_ecliptic_to_view raises an error and does not return.
C2_UnknownViewRaises ==
  args.view_type \notin {"ecliptic", "equator", "horizon"} => stage # "view"

\* C3: with the store unchanged in between, a vector of the observer's frame
\* carried to the inertial frame, to the ecliptic frame and to the horizon
\* view is the vector itself, and a vector of the inertial frame carried to
\* the ecliptic frame and to the equator view is the vector itself.
C3_FrameRoundTrip ==
  stage = "view" =>
    /\ (args.view_type = "horizon" /\ args.native = "observer"
          => Last(ret) = args.x)
    /\ (args.view_type = "equator" /\ args.native = "inertial"
          => Last(ret) = args.x)

\* a vector off the axes has gone round through all four rotations of a
\* solar day and is back
C3_Witness ==
  /\ stage = "view"
  /\ args.view_type = "horizon" /\ args.native = "observer"
  /\ args.day_type = "solar"
  /\ args.obliquity = 1 /\ args.latitude = 1
  /\ args.time_of_day = 1 /\ args.time_of_year = 2
  /\ args.x = Vec(1, -1, 1)
  /\ ret[2] # args.x /\ ret[3] # ret[2]
  /\ Last(ret) = args.x

\* C4 as stated: for every obliquity o in [0, pi], the declination is o at
\* t = 0, -o at t = pi, and 0 at t = pi/2.
C4_SolsticesAsStated ==
  "d" \in DOMAIN ret =>
    /\ args.t = 0 => ret.d = args.o
    /\ args.t = Pi => ret.d = -args.o
    /\ args.t = HalfPi => ret.d = 0

\* C4 as amended: for o in [0, pi/2] the declination is o at t = 0 and -o at
\* t = pi; for o in [pi/2, pi] it is pi - o at t = 0 and o - pi at t = pi;
\* it is 0 at t = pi/2 for every o in [0, pi].
C4_Solstices ==
  "d" \in DOMAIN ret =>
    /\ args.t = 0 =>
         ret.d = IF args.o <= HalfPi THEN args.o ELSE Pi - args.o
    /\ args.t = Pi =>
         ret.d = IF args.o <= HalfPi THEN -args.o ELSE args.o - Pi
    /\ args.t = HalfPi => ret.d = 0

\* the declination at the June solstice for an obliquity beyond pi/2
C4_Witness ==
  /\ "d" \in DOMAIN ret
  /\ args.t = 0 /\ args.o = 4
  /\ ret.d = 2

\* C5: rotating v by t and then by -t about the same axis returns v.
C5_RotateRoundTrip == stage = "restored" => Last(ret) = args.x

\* a rotation by 30 degrees about y that moved the vector, and its inverse
C5_Witness ==
  /\ stage = "restored"
  /\ args.axis = "y" /\ args.p = 1 /\ args.x = Vec(1, 0, 1)
  /\ ret[2] # ret[1]
  /\ ret[3] = ret[1]

\* C6: every curve returned by make_globe(i, j, n) has n + 1 sample points.
C6_ResolutionHonoured ==
  stage = "returned" =>
    \A k \in 1..Len(ret) : Len(ret[k].samples) = args.n + 1

\* C7: the sunlit fraction is within [0, 1]; it is 1 when tan(l)*tan(d) >= 1
\* and 0 when tan(l)*tan(d) <= -1; it is 1/2 at latitude 0; the argument of
\* the inverse cosine is within [-1, 1].
C7_SunlitFraction ==
  "lit" \in DOMAIN ret =>
    LET x == Mul(Tan(args.l), Tan(ret.d))
        r == ret.lit
    IN  /\ Leq(Neg(One), r.arg) /\ Leq(r.arg, One)
        /\ r.frac # NaN
        /\ Leq(Zero, r.frac[1])
        /\ Leq(r.frac[1], r.frac[2])
        /\ Leq(r.frac[2], One)
        /\ Leq(One, x) => r.frac = <<One, One>>
        /\ Leq(x, Neg(One)) => r.frac = <<Zero, Zero>>
        /\ args.l = 0 => r.frac = <<Half, Half>>

\* a polar day: tan(l)*tan(d) is 3 and is clamped to 1
C7_Witness ==
  /\ "lit" \in DOMAIN ret
  /\ args.l = 2 /\ ret.d = 2
  /\ Mul(Tan(args.l), Tan(ret.d)) = Q(3)
  /\ ret.lit.arg = One
  /\ ret.lit.frac = <<One, One>>

\* C8: the two definitions of make_sun_path give the same curve: the same
\* sample parameters and, at every parameter value, the same point.
C8_SunPathDefinitionsAgree ==
  ("first" \in DOMAIN ret /\ "second" \in DOMAIN ret) =>
    ret.first = ret.second

\* both definitions evaluated for a tilted circle seen from 30 degrees north
C8_Witness ==
  /\ "first" \in DOMAIN ret /\ "second" \in DOMAIN ret
  /\ args.o = 2 /\ args.t = 0 /\ args.l = 1 /\ args.p = 1
  /\ ret.first.point = ret.second.point
  /\ ret.first.point # Vec(1, 0, 0)
  /\ Len(ret.second.samples) = 101

-----------------------------------------------------------------------------
(* The claims about the demo.                                              *)

\* the places 1..n in order
Places(n) == [k \in 1..n |-> k]

\* the first refresh() of the figure is to come; it has been made
BeforeRefresh == pc \in {"setup", "sun_setup"}
Shown == pc \in {"shown", "sun_shown"}

\* C9: the first refresh creates one artist per call of plot, text and
\* text2d and appends it; every later refresh makes the same calls in the
\* same order, takes each artist of the list once, in creation order, does
\* not run past the end of the list, and leaves the list as long as it was.
C9_ArtistReuse ==
  /\ [](Shown =>
          /\ drawn.exc = "none"
          /\ Len(drawn.calls) = Len(artists)
          /\ drawn.used = Places(Len(artists))
          /\ \A k \in 1..Len(artists) : artists[k].kind = drawn.calls[k])
  /\ [][/\ BeforeRefresh /\ Shown' =>
             /\ artists = <<>>
             /\ drawn'.created = Len(drawn'.calls)
             /\ Len(artists') = drawn'.created
        /\ Shown =>
             /\ Len(artists') = Len(artists)
             /\ drawn'.calls = drawn.calls
             /\ drawn'.created \in {0, drawn.created}
             /\ \A k \in 1..Len(artists) :
                  /\ artists'[k].kind = artists[k].kind
                  /\ artists'[k].label = artists[k].label]_vars

\* a refresh of demo() in the horizon view that created nothing and used all
\* 29 artists
C9_Witness ==
  /\ pc = "shown"
  /\ store.view_type = "horizon"
  /\ store.time_of_day = HalfPi
  /\ drawn.created = 0
  /\ Len(drawn.used) = 29
  /\ Len(artists) = 29

\* the view type that follows v in the cycle of the claim
NextView(v) ==
  CASE v = "ecliptic" -> "equator"
    [] v = "equator" -> "horizon"
    [] v = "horizon" -> "ecliptic"

\* the day type that follows d
NextDay(d) == IF d = "sidereal" THEN "solar" ELSE "sidereal"

StoreAngles(s) ==
  <<s.obliquity, s.latitude, s.time_of_year, s.time_of_day>>

\* C10: from view_type = 'ecliptic' and day_type = 'sidereal', key '1'
\* advances view_type in the cycle ecliptic, equator, horizon and leaves
\* day_type and the four angles alone, key '2' toggles day_type and leaves
\* view_type alone, any other key changes nothing; view_type is always one of
\* the three known values and transform_ecliptic_to_view returns a vector.
C10_ModeCycling ==
  /\ pc = "setup" =>
       store.view_type = "ecliptic" /\ store.day_type = "sidereal"
  /\ [](pc \in {"setup", "shown"} =>
          /\ store.view_type \in {"ecliptic", "equator", "horizon"}
          /\ store.day_type \in {"sidereal", "solar"}
          /\ transform_ecliptic_to_view(store, Vec(0, 0, 1)) # None)
  /\ [][/\ on_key_press("1") =>
             /\ store'.view_type = NextView(store.view_type)
             /\ store'.day_type = store.day_type
             /\ StoreAngles(store') = StoreAngles(store)
        /\ on_key_press("2") =>
             /\ store'.day_type = NextDay(store.day_type)
             /\ store'.view_type = store.view_type
             /\ StoreAngles(store') = StoreAngles(store)
        /\ on_key_press("3") => UNCHANGED <<store, artists, drawn>>]_vars

\* key '1' pressed five times and key '2' once
C10_Witness ==
  /\ pc = "shown"
  /\ store.view_type = "horizon" /\ view_type_iter = 0
  /\ store.day_type = "solar" /\ day_type_iter = 0

====
